---- MODULE Spec2Model ----
(***************************************************************************)
(* Raffle number-reservation backend (servidor.js, express + supabase +    *)
(* resend).  The runnable revision of the server is modelled: every await  *)
(* of a handler is a separate step, so that concurrent requests interleave *)
(* at exactly the places where the node event loop lets them.              *)
(*                                                                         *)
(* Time is in milliseconds, as Date.now() and the caller's timestamp are.  *)
(***************************************************************************)
EXTENDS Integers, Sequences, FiniteSets

\* ------------------------------------------------------------------ bounds
\* The participaciones table holds at most MaxRecs rows (inserts stop there).
MaxRecs == 2
\* The clock advances at most MaxTicks times.
MaxTicks == 1

\* --------------------------------------------------------------- constants
\* const TREINTA_MINUTOS = 8 * 60 * 60 * 1000;  (the hold window, 8 hours)
TREINTA_MINUTOS == 8 * 60 * 60 * 1000
\* Date.now() when the model starts; any positive instant.
Inicio == 1000
\* The clock moves one hold window at a time: a pendiente row stamped Inicio
\* is younger than the window at first and exactly as old as it after a step.
Paso == TREINTA_MINUTOS

\* Two requests can be in flight at once; a request takes the first free slot.
Workers == {1, 2}

VARIABLES
    participaciones,   \* the supabase table, rows in insertion order
    ahora,             \* Date.now()
    workers,           \* per slot: the request being served, or its response
    sesion             \* what the administrator's client got from the login

vars == <<participaciones, ahora, workers, sesion>>

\* --------------------------------------------------------- request bodies
SinCuerpo ==
    [nombre |-> "", telefono |-> "", correo |-> "", numeros |-> <<>>,
     esArray |-> FALSE, referencia |-> "", fecha |-> "", timestamp |-> 0]

\* The timestamp is whatever the caller sends; here the start instant, which
\* is current at first and backdated once the clock has moved.
CuerpoBase ==
    [nombre |-> "ana", telefono |-> "555", correo |-> "ana@correo",
     numeros |-> <<1, 2>>, esArray |-> TRUE, referencia |-> "R1",
     fecha |-> "hoy", timestamp |-> Inicio]

Cuerpo(ns, r) == [CuerpoBase EXCEPT !.numeros = ns, !.referencia = r]

\* Well-formed bodies: number sets that overlap in part (2), coincide, or are
\* disjoint, each pairing seen with the same and with another reference.
CuerposValidos ==
    { Cuerpo(<<1, 2>>, "R1"), Cuerpo(<<2, 3>>, "R2"),
      Cuerpo(<<1, 2>>, "R2"), Cuerpo(<<3, 3>>, "R1") }

\* Bodies with exactly one field missing, empty, zero or too short.
CuerposInvalidos ==
    { [CuerpoBase EXCEPT !.nombre = ""],
      [CuerpoBase EXCEPT !.telefono = ""],
      [CuerpoBase EXCEPT !.correo = ""],
      [CuerpoBase EXCEPT !.referencia = ""],
      [CuerpoBase EXCEPT !.fecha = ""],
      [CuerpoBase EXCEPT !.timestamp = 0],
      [CuerpoBase EXCEPT !.esArray = FALSE, !.numeros = <<>>],
      [CuerpoBase EXCEPT !.numeros = <<1>>] }

\* ------------------------------------------------------------- pure parts
Rango(s) == { s[i] : i \in 1..Len(s) }

\* todas.flatMap(p => p.numeros || []) collected in a Set
FlatNumeros(filas) == UNION { Rango(filas[i].numeros) : i \in 1..Len(filas) }

\* mutant: the hold window is applied to confirmed rows too
FiltroOcupados_ConfirmadoCaduca(p, t) ==
    /\ p.estado \in {"confirmado", "pendiente"}
    /\ p.timestamp > t - TREINTA_MINUTOS

\* mutant: a pending row exactly as old as the hold window still counts
FiltroOcupados_Inclusivo(p, t) ==
    \/ p.estado = "confirmado"
    \/ (p.estado = "pendiente" /\ p.timestamp >= t - TREINTA_MINUTOS)

\* mutant: the second branch forgets to test for 'pendiente'
FiltroOcupados_SinEstado(p, t) ==
    \/ p.estado = "confirmado"
    \/ p.timestamp > t - TREINTA_MINUTOS

\* the filter of GET /api/ocupados
FiltroOcupados(p, t) ==
    \/ p.estado = "confirmado"
    \/ (p.estado = "pendiente" /\ p.timestamp > t - TREINTA_MINUTOS)

\* data.filter(...).flatMap(p => p.numeros || []): the numbers of the rows
\* that pass the filter, row after row, repeats included
RECURSIVE FlatMapOcupados(_, _)
FlatMapOcupados(filas, t) ==
    IF filas = <<>> THEN <<>>
    ELSE (IF FiltroOcupados(Head(filas), t) THEN Head(filas).numeros ELSE <<>>)
            \o FlatMapOcupados(Tail(filas), t)

\* mutant: the array is sent as flatMap built it, without the Set
SetEnArray_SinSet(xs) == xs

\* [...new Set(xs)]: each value once, in the order of its first occurrence
RECURSIVE SetEnArray(_)
SetEnArray(xs) ==
    IF xs = <<>> THEN <<>>
    ELSE LET antes == SetEnArray(SubSeq(xs, 1, Len(xs) - 1)) IN
         IF xs[Len(xs)] \in Rango(antes) THEN antes
         ELSE Append(antes, xs[Len(xs)])

\* the array of the response: res.json({ numeros: [...ocupados] })
ocupadosLista(filas, t) == SetEnArray(FlatMapOcupados(filas, t))

\* new Set(data.filter(...).flatMap(p => p.numeros || [])), as membership
ocupados(filas, t) == Rango(ocupadosLista(filas, t))

\* numeros.filter(n => ocupados.has(n)), with ocupados built from every row
repetidos(numeros, filas) ==
    { n \in Rango(numeros) : n \in FlatNumeros(filas) }

\* mutant: the minimum of two numbers is not tested
FaltanDatos_SinMinimo(b) ==
    \/ b.nombre = ""
    \/ b.telefono = ""
    \/ b.correo = ""
    \/ b.referencia = ""
    \/ b.fecha = ""
    \/ b.timestamp = 0
    \/ ~b.esArray

\* the 400 test of POST /api/reservar
FaltanDatos(b) ==
    \/ b.nombre = ""
    \/ b.telefono = ""
    \/ b.correo = ""
    \/ b.referencia = ""
    \/ b.fecha = ""
    \/ b.timestamp = 0
    \/ ~b.esArray
    \/ Len(b.numeros) < 2

\* mutant: the duplicate-reference query skips rejected rows
referencias_SinRechazadas(filas, ref) ==
    { i \in 1..Len(filas) :
        filas[i].referencia = ref /\ filas[i].estado # "rechazado" }

\* .select('referencia').eq('referencia', referencia)
referencias(filas, ref) ==
    { i \in 1..Len(filas) : filas[i].referencia = ref }

\* ---------------------------------------------------------------- slots
Libre ==
    [op |-> "ninguna", pc |-> "libre", req |-> SinCuerpo, id |-> 0,
     status |-> 0, error |-> "", nums |-> {}, data |-> <<>>, correo |-> "no"]

\* the client has not called POST /api/admin/login: it holds no token
SinSesion == [login |-> "ninguno", token |-> 0]

\* res.status(st).json(...): the slot keeps the response, not the request
Respuesta(w, st, err, ns) ==
    [workers[w] EXCEPT !.pc = "fin", !.req = SinCuerpo, !.status = st,
                       !.error = err, !.nums = ns]

Init ==
    /\ participaciones = <<>>
    /\ ahora = Inicio
    /\ workers = [w \in Workers |-> Libre]
    /\ sesion = SinSesion

\* a slot is free when idle or when its response has been sent
SlotLibre(w) == workers[w].pc \in {"libre", "fin"}
Disponible(w) == SlotLibre(w) /\ \A v \in Workers : v < w => ~SlotLibre(v)

\* ------------------------------------------------- POST /api/reservar
ReservarRecibir(w, b) ==
    /\ Disponible(w)
    /\ UNCHANGED <<participaciones, ahora, sesion>>
    /\ IF FaltanDatos(b)
       THEN workers' = [workers EXCEPT ![w] =
                [Libre EXCEPT !.op = "reservar", !.pc = "fin",
                              !.status = 400, !.error = "faltan"]]
       ELSE workers' = [workers EXCEPT ![w] =
                [Libre EXCEPT !.op = "reservar", !.pc = "numeros", !.req = b]]

\* mutant: the reference is looked up before the numbers are compared
ReservarVerificarNumeros_ReferenciaPrimero(w) ==
    /\ workers[w].op = "reservar" /\ workers[w].pc = "numeros"
    /\ UNCHANGED <<participaciones, ahora, sesion>>
    /\ LET rep == repetidos(workers[w].req.numeros, participaciones) IN
       IF referencias(participaciones, workers[w].req.referencia) # {}
       THEN workers' = [workers EXCEPT ![w] = Respuesta(w, 409, "referencia", {})]
       ELSE IF rep # {}
       THEN workers' = [workers EXCEPT ![w] = Respuesta(w, 409, "numeros", rep)]
       ELSE workers' = [workers EXCEPT ![w].pc = "referencia"]

\* .select('numeros'), then the test of repetidos
ReservarVerificarNumeros(w) ==
    /\ workers[w].op = "reservar" /\ workers[w].pc = "numeros"
    /\ UNCHANGED <<participaciones, ahora, sesion>>
    /\ LET rep == repetidos(workers[w].req.numeros, participaciones) IN
       IF rep # {}
       THEN workers' = [workers EXCEPT ![w] = Respuesta(w, 409, "numeros", rep)]
       ELSE workers' = [workers EXCEPT ![w].pc = "referencia"]

ReservarVerificarReferencia(w) ==
    /\ workers[w].op = "reservar" /\ workers[w].pc = "referencia"
    /\ UNCHANGED <<participaciones, ahora, sesion>>
    /\ IF referencias(participaciones, workers[w].req.referencia) # {}
       THEN workers' = [workers EXCEPT ![w] = Respuesta(w, 409, "referencia", {})]
       ELSE workers' = [workers EXCEPT ![w].pc = "insertar"]

\* mutant: the row is inserted already confirmed
NuevaFila_Confirmada(b, id) ==
    [id |-> id, nombre |-> b.nombre, telefono |-> b.telefono,
     correo |-> b.correo, numeros |-> b.numeros, referencia |-> b.referencia,
     fecha |-> b.fecha, estado |-> "confirmado", timestamp |-> b.timestamp]

\* .insert([{ nombre, ..., estado: 'pendiente', timestamp }]); id by the store
NuevaFila(b, id) ==
    [id |-> id, nombre |-> b.nombre, telefono |-> b.telefono,
     correo |-> b.correo, numeros |-> b.numeros, referencia |-> b.referencia,
     fecha |-> b.fecha, estado |-> "pendiente", timestamp |-> b.timestamp]

ReservarInsertar(w) ==
    /\ workers[w].op = "reservar" /\ workers[w].pc = "insertar"
    /\ Len(participaciones) < MaxRecs
    /\ LET id == Len(participaciones) + 1 IN
       /\ participaciones' = Append(participaciones, NuevaFila(workers[w].req, id))
       /\ workers' = [workers EXCEPT ![w].pc = "correo", ![w].id = id]
    /\ UNCHANGED <<ahora, sesion>>

\* mutant: when the mail fails the handler takes its insert back
ReservarEnviarCorreo_Deshace(w) ==
    /\ workers[w].op = "reservar" /\ workers[w].pc = "correo"
    /\ UNCHANGED <<ahora, sesion>>
    /\ \/ /\ UNCHANGED participaciones
          /\ workers' = [workers EXCEPT ![w] =
                [Respuesta(w, 201, "", {}) EXCEPT !.correo = "enviado"]]
       \/ /\ participaciones' =
                SubSeq(participaciones, 1, Len(participaciones) - 1)
          /\ workers' = [workers EXCEPT ![w] =
                [Respuesta(w, 500, "registrar", {}) EXCEPT !.correo = "fallo"]]

\* await enviarCorreo(...): resolves, or throws into the handler's catch
ReservarEnviarCorreo(w) ==
    /\ workers[w].op = "reservar" /\ workers[w].pc = "correo"
    /\ UNCHANGED <<participaciones, ahora, sesion>>
    /\ \/ workers' = [workers EXCEPT ![w] =
              [Respuesta(w, 201, "", {}) EXCEPT !.correo = "enviado"]]
       \/ workers' = [workers EXCEPT ![w] =
              [Respuesta(w, 500, "registrar", {}) EXCEPT !.correo = "fallo"]]

\* a supabase call of the handler returns an error: thrown, caught, 500
ReservarErrorStore(w) ==
    /\ workers[w].op = "reservar"
    /\ workers[w].pc \in {"numeros", "referencia", "insertar"}
    /\ UNCHANGED <<participaciones, ahora, sesion>>
    /\ workers' = [workers EXCEPT ![w] = Respuesta(w, 500, "registrar", {})]

\* ------------------------------------ POST /api/participacion/:id/validar
\* res.status(st).json(...) after the update was attempted
RespuestaAdmin(w, st, err) ==
    [workers[w] EXCEPT !.pc = "fin", !.id = 0, !.status = st, !.error = err]

\* the ids an admin request names: every stored id and one that is not stored
Ids == 1..(Len(participaciones) + 1)

Existe(id) == id \in 1..Len(participaciones)

\* if (fetchError || !participacion) return res.status(404)
\* if (<guard>) return res.status(400); the slot keeps the id it was asked for
Buscar(op, id, fetchError, guarda) ==
    LET s == [Libre EXCEPT !.op = op, !.id = id] IN
    IF fetchError \/ ~Existe(id)
    THEN [s EXCEPT !.pc = "fin", !.status = 404, !.error = "no encontrada"]
    ELSE IF guarda
    THEN [s EXCEPT !.pc = "fin", !.status = 400, !.error = "ya validada"]
    ELSE [s EXCEPT !.pc = "actualizar"]

\* mutant: the guard compares with a value estado never takes
YaValidada_OtroLiteral(p) == p.estado = "validado"

\* if (participacion.estado === 'confirmado')  -- validar
YaValidada(p) == p.estado = "confirmado"

\* mutant: the request is refused unless the client's login has succeeded
ValidarBuscar_ConSesion(w, id) ==
    /\ Disponible(w)
    /\ UNCHANGED <<participaciones, ahora, sesion>>
    /\ IF sesion.login # "exitoso"
       THEN workers' = [workers EXCEPT ![w] =
               [Libre EXCEPT !.op = "validar", !.pc = "fin", !.id = id,
                             !.status = 401, !.error = "no autorizado"]]
       ELSE \E fetchError \in BOOLEAN :
               workers' = [workers EXCEPT ![w] =
                  Buscar("validar", id, fetchError,
                         Existe(id) /\ YaValidada(participaciones[id]))]

\* .select('*').eq('id', id).single(), then the two guards
ValidarBuscar(w, id) ==
    /\ Disponible(w)
    /\ UNCHANGED <<participaciones, ahora, sesion>>
    /\ \E fetchError \in BOOLEAN :
         workers' = [workers EXCEPT ![w] =
            Buscar("validar", id, fetchError,
                   Existe(id) /\ YaValidada(participaciones[id]))]

\* mutant: the update has lost its .eq('id', id) and writes every row
ValidarActualizar_SinFiltro(w) ==
    /\ workers[w].op = "validar" /\ workers[w].pc = "actualizar"
    /\ UNCHANGED <<ahora, sesion>>
    /\ \/ /\ participaciones' =
                [i \in 1..Len(participaciones) |->
                    [participaciones[i] EXCEPT !.estado = "confirmado"]]
          /\ workers' = [workers EXCEPT ![w].pc = "correo"]
       \/ /\ UNCHANGED participaciones
          /\ workers' = [workers EXCEPT ![w] = RespuestaAdmin(w, 500, "validar")]

\* .update({ estado: 'confirmado' }).eq('id', id)
ValidarActualizar(w) ==
    /\ workers[w].op = "validar" /\ workers[w].pc = "actualizar"
    /\ UNCHANGED <<ahora, sesion>>
    /\ \/ /\ participaciones' =
                [participaciones EXCEPT ![workers[w].id].estado = "confirmado"]
          /\ workers' = [workers EXCEPT ![w].pc = "correo"]
       \/ /\ UNCHANGED participaciones
          /\ workers' = [workers EXCEPT ![w] = RespuestaAdmin(w, 500, "validar")]

ValidarEnviarCorreo(w) ==
    /\ workers[w].op = "validar" /\ workers[w].pc = "correo"
    /\ UNCHANGED <<participaciones, ahora, sesion>>
    /\ \/ workers' = [workers EXCEPT ![w] =
              [RespuestaAdmin(w, 200, "") EXCEPT !.correo = "enviado"]]
       \/ workers' = [workers EXCEPT ![w] =
              [RespuestaAdmin(w, 500, "validar") EXCEPT !.correo = "fallo"]]

\* ----------------------------------- POST /api/participacion/:id/rechazar
\* mutant: rechazar made as strict as validar, refusing all but pending rows
NoSePuedeRechazar_Estricto(p) == p.estado # "pendiente"

\* if (participacion.estado === 'confirmado')  -- rechazar
NoSePuedeRechazar(p) == p.estado = "confirmado"

\* mutant: the update is issued before the fetched row is looked at
RechazarBuscar_ActualizaAntes(w, id) ==
    /\ Disponible(w)
    /\ UNCHANGED <<ahora, sesion>>
    /\ \E fetchError \in BOOLEAN :
         /\ workers' = [workers EXCEPT ![w] =
               Buscar("rechazar", id, fetchError,
                      Existe(id) /\ NoSePuedeRechazar(participaciones[id]))]
         /\ participaciones' =
               IF Existe(id) /\ ~fetchError
               THEN [participaciones EXCEPT ![id].estado = "rechazado"]
               ELSE participaciones

\* .select('*').eq('id', id).single(), then the two guards
RechazarBuscar(w, id) ==
    /\ Disponible(w)
    /\ UNCHANGED <<participaciones, ahora, sesion>>
    /\ \E fetchError \in BOOLEAN :
         workers' = [workers EXCEPT ![w] =
            Buscar("rechazar", id, fetchError,
                   Existe(id) /\ NoSePuedeRechazar(participaciones[id]))]

\* .update({ estado: 'rechazado' }).eq('id', id)
RechazarActualizar(w) ==
    /\ workers[w].op = "rechazar" /\ workers[w].pc = "actualizar"
    /\ UNCHANGED <<ahora, sesion>>
    /\ \/ /\ participaciones' =
                [participaciones EXCEPT ![workers[w].id].estado = "rechazado"]
          /\ workers' = [workers EXCEPT ![w].pc = "correo"]
       \/ /\ UNCHANGED participaciones
          /\ workers' = [workers EXCEPT ![w] = RespuestaAdmin(w, 500, "rechazar")]

RechazarEnviarCorreo(w) ==
    /\ workers[w].op = "rechazar" /\ workers[w].pc = "correo"
    /\ UNCHANGED <<participaciones, ahora, sesion>>
    /\ \/ workers' = [workers EXCEPT ![w] =
              [RespuestaAdmin(w, 200, "") EXCEPT !.correo = "enviado"]]
       \/ workers' = [workers EXCEPT ![w] =
              [RespuestaAdmin(w, 500, "rechazar") EXCEPT !.correo = "fallo"]]

\* ---------------------------------------------------- GET /api/ocupados
\* one read of the table; the filter then runs synchronously on what was read
GetOcupados(w) ==
    /\ Disponible(w)
    /\ UNCHANGED <<participaciones, ahora, sesion>>
    /\ \/ workers' = [workers EXCEPT ![w] =
              [Libre EXCEPT !.op = "ocupados", !.pc = "fin", !.status = 200,
                            !.nums = ocupados(participaciones, ahora)]]
       \/ workers' = [workers EXCEPT ![w] =
              [Libre EXCEPT !.op = "ocupados", !.pc = "fin", !.status = 500,
                            !.error = "ocupados"]]

\* ------------------------------------------------ GET /api/participaciones
Permutaciones(n) ==
    { f \in [1..n -> 1..n] : \A i, j \in 1..n : i # j => f[i] # f[j] }

\* .select('*').order('timestamp', { ascending: false }): the rows, newest
\* first; the query leaves the order of rows with equal timestamps open
Ordenadas(filas) ==
    { [i \in 1..Len(filas) |-> filas[f[i]]] :
        f \in { g \in Permutaciones(Len(filas)) :
                  \A i \in 1..(Len(filas) - 1) :
                      filas[g[i]].timestamp >= filas[g[i + 1]].timestamp } }

GetParticipaciones(w) ==
    /\ Disponible(w)
    /\ UNCHANGED <<participaciones, ahora, sesion>>
    /\ \/ \E d \in Ordenadas(participaciones) :
            workers' = [workers EXCEPT ![w] =
                [Libre EXCEPT !.op = "participaciones", !.pc = "fin",
                              !.status = 200, !.data = d]]
       \/ workers' = [workers EXCEPT ![w] =
              [Libre EXCEPT !.op = "participaciones", !.pc = "fin",
                            !.status = 500, !.error = "participaciones"]]

\* ------------------------------------------------- POST /api/admin/login
\* process.env.ADMIN_PASSWORD || 'admin123'
ADMIN_PASSWORD == "admin123"

\* the passwords a caller sends: the right one, a wrong one, none
Passwords == {ADMIN_PASSWORD, "otra", ""}

\* the handler compares, answers, and keeps nothing; on success the client
\* holds the token 'admin-session-' + Date.now(), on 401 what it held before
AdminLogin(w, password) ==
    /\ Disponible(w)
    /\ UNCHANGED <<participaciones, ahora>>
    /\ IF password = ADMIN_PASSWORD
       THEN /\ workers' = [workers EXCEPT ![w] =
                  [Libre EXCEPT !.op = "login", !.pc = "fin", !.status = 200]]
            /\ sesion' = [login |-> "exitoso", token |-> ahora]
       ELSE /\ workers' = [workers EXCEPT ![w] =
                  [Libre EXCEPT !.op = "login", !.pc = "fin", !.status = 401,
                                !.error = "password"]]
            /\ sesion' = IF sesion.login = "exitoso" THEN sesion
                         ELSE [login |-> "fallido", token |-> 0]

\* ------------------------------------------------------------ the clock
Tick ==
    /\ ahora < Inicio + MaxTicks * Paso
    /\ ahora' = ahora + Paso
    /\ UNCHANGED <<participaciones, workers, sesion>>

Next ==
    \/ \E w \in Workers : \E b \in CuerposValidos \cup CuerposInvalidos :
           ReservarRecibir(w, b)
    \/ \E w \in Workers : ReservarVerificarNumeros(w)
    \/ \E w \in Workers : ReservarVerificarReferencia(w)
    \/ \E w \in Workers : ReservarInsertar(w)
    \/ \E w \in Workers : ReservarEnviarCorreo(w)
    \/ \E w \in Workers : ReservarErrorStore(w)
    \/ \E w \in Workers : \E id \in Ids : ValidarBuscar(w, id)
    \/ \E w \in Workers : ValidarActualizar(w)
    \/ \E w \in Workers : ValidarEnviarCorreo(w)
    \/ \E w \in Workers : \E id \in Ids : RechazarBuscar(w, id)
    \/ \E w \in Workers : RechazarActualizar(w)
    \/ \E w \in Workers : RechazarEnviarCorreo(w)
    \/ \E w \in Workers : GetOcupados(w)
    \/ Tick

Spec == Init /\ [][Next]_vars

\* ------------------------------------------------------------------
\* Restricted specifications: one group of handlers each, started from any
\* table of at most MaxRecs rows instead of the empty one.
\* ------------------------------------------------------------------
Estados == {"pendiente", "confirmado", "rechazado"}

\* tables of 0..MaxRecs rows drawn from filas; the store numbers the rows
Tablas(filas) ==
    UNION { { [i \in 1..n |-> [f[i] EXCEPT !.id = i]] : f \in [1..n -> filas] } :
              n \in 0..MaxRecs }

\* rows as POST /api/reservar writes them, in any estado validar and rechazar
\* can leave them in
FilasReservadas ==
    { [NuevaFila(b, 0) EXCEPT !.estado = e] : b \in CuerposValidos, e \in Estados }

\* rows for the occupancy rule: any estado, stamped at the start instant or
\* one millisecond later
FilasConFecha ==
    { [NuevaFila(Cuerpo(ns, "R1"), 0) EXCEPT !.estado = e, !.timestamp = ts] :
        ns \in {<<1, 2>>, <<2, 3>>, <<3, 3>>}, e \in Estados,
        ts \in {Inicio, Inicio + 1} }

\* rows for validar and rechazar, which read and write estado only
FilasPorEstado ==
    { [NuevaFila(CuerpoBase, 0) EXCEPT !.estado = e] : e \in Estados }

InitDesde(filas) ==
    /\ participaciones \in Tablas(filas)
    /\ ahora = Inicio
    /\ workers = [w \in Workers |-> Libre]
    /\ sesion = SinSesion

\* GET /api/ocupados and the clock
InitOcupados == InitDesde(FilasConFecha)

NextOcupados ==
    \/ \E w \in Workers : GetOcupados(w)
    \/ Tick

SpecOcupados == InitOcupados /\ [][NextOcupados]_vars

\* POST /api/reservar, two requests at a time
InitReservar == InitDesde(FilasReservadas)

NextReservar ==
    \/ \E w \in Workers : \E b \in CuerposValidos \cup CuerposInvalidos :
           ReservarRecibir(w, b)
    \/ \E w \in Workers : ReservarVerificarNumeros(w)
    \/ \E w \in Workers : ReservarVerificarReferencia(w)
    \/ \E w \in Workers : ReservarInsertar(w)
    \/ \E w \in Workers : ReservarEnviarCorreo(w)
    \/ \E w \in Workers : ReservarErrorStore(w)

SpecReservar == InitReservar /\ [][NextReservar]_vars

\* validar and rechazar, two requests at a time
InitAdmin == InitDesde(FilasPorEstado)

NextAdmin ==
    \/ \E w \in Workers : \E id \in Ids : ValidarBuscar(w, id)
    \/ \E w \in Workers : ValidarActualizar(w)
    \/ \E w \in Workers : ValidarEnviarCorreo(w)
    \/ \E w \in Workers : \E id \in Ids : RechazarBuscar(w, id)
    \/ \E w \in Workers : RechazarActualizar(w)
    \/ \E w \in Workers : RechazarEnviarCorreo(w)

SpecAdmin == InitAdmin /\ [][NextAdmin]_vars

\* every handler, one request at a time: a request is taken only when no
\* other is being served
EnReposo == \A v \in Workers : SlotLibre(v)

InitSecuencial == InitDesde(FilasReservadas)

NextSecuencial ==
    \/ /\ EnReposo
       /\ \E w \in Workers : \E b \in CuerposValidos \cup CuerposInvalidos :
              ReservarRecibir(w, b)
    \/ \E w \in Workers : ReservarVerificarNumeros(w)
    \/ \E w \in Workers : ReservarVerificarReferencia(w)
    \/ \E w \in Workers : ReservarInsertar(w)
    \/ \E w \in Workers : ReservarEnviarCorreo(w)
    \/ \E w \in Workers : ReservarErrorStore(w)
    \/ /\ EnReposo
       /\ \E w \in Workers : \E id \in Ids : ValidarBuscar(w, id)
    \/ \E w \in Workers : ValidarActualizar(w)
    \/ \E w \in Workers : ValidarEnviarCorreo(w)
    \/ /\ EnReposo
       /\ \E w \in Workers : \E id \in Ids : RechazarBuscar(w, id)
    \/ \E w \in Workers : RechazarActualizar(w)
    \/ \E w \in Workers : RechazarEnviarCorreo(w)
    \/ /\ EnReposo
       /\ \E w \in Workers : GetOcupados(w)
    \/ Tick

SpecSecuencial == InitSecuencial /\ [][NextSecuencial]_vars

\* POST /api/reservar followed by GET /api/ocupados, one request at a time
\* and with the clock standing still at any instant it can show: a caller's
\* timestamp of Inicio is then current, or a hold window old
Relojes == { Inicio + k * Paso : k \in 0..MaxTicks }

InitReservarLeer ==
    /\ participaciones \in Tablas(FilasReservadas)
    /\ ahora \in Relojes
    /\ workers = [w \in Workers |-> Libre]
    /\ sesion = SinSesion

NextReservarLeer ==
    \/ /\ EnReposo
       /\ \E w \in Workers : \E b \in CuerposValidos \cup CuerposInvalidos :
              ReservarRecibir(w, b)
    \/ \E w \in Workers : ReservarVerificarNumeros(w)
    \/ \E w \in Workers : ReservarVerificarReferencia(w)
    \/ \E w \in Workers : ReservarInsertar(w)
    \/ \E w \in Workers : ReservarEnviarCorreo(w)
    \/ \E w \in Workers : ReservarErrorStore(w)
    \/ /\ EnReposo
       /\ \E w \in Workers : GetOcupados(w)

SpecReservarLeer == InitReservarLeer /\ [][NextReservarLeer]_vars

\* the administrator's endpoints over rows of any estado and two ages:
\* validar, rechazar and the listing one request at a time, and a login at
\* any moment, also between the steps of another request
FilasAdmin ==
    { [f EXCEPT !.timestamp = ts] : f \in FilasPorEstado, ts \in {Inicio, Inicio + 1} }

InitSesion == InitDesde(FilasAdmin)

NextSesion ==
    \/ \E w \in Workers : \E password \in Passwords : AdminLogin(w, password)
    \/ /\ EnReposo
       /\ \E w \in Workers : \E id \in Ids : ValidarBuscar(w, id)
    \/ \E w \in Workers : ValidarActualizar(w)
    \/ \E w \in Workers : ValidarEnviarCorreo(w)
    \/ /\ EnReposo
       /\ \E w \in Workers : \E id \in Ids : RechazarBuscar(w, id)
    \/ \E w \in Workers : RechazarActualizar(w)
    \/ \E w \in Workers : RechazarEnviarCorreo(w)
    \/ /\ EnReposo
       /\ \E w \in Workers : GetParticipaciones(w)

SpecSesion == InitSesion /\ [][NextSesion]_vars

\* ==================================================================
\* Properties
\* ==================================================================
\* the numbers of row i as a set
Numeros(i) == Rango(participaciones[i].numeros)

\* "active" as the data model words it: confirmed, or pending and younger
\* than the hold window
Activa(p, t) ==
    \/ p.estado = "confirmado"
    \/ (p.estado = "pendiente" /\ t - p.timestamp < TREINTA_MINUTOS)

NumerosActivos(filas, t) ==
    UNION { Rango(filas[i].numeros) :
              i \in { j \in 1..Len(filas) : Activa(filas[j], t) } }

\* instants at which the occupancy rule is evaluated: a row stamped Inicio is
\* new, one millisecond short of the window, exactly at it, and past it
Instantes ==
    { Inicio, Inicio + TREINTA_MINUTOS - 1, Inicio + TREINTA_MINUTOS,
      Inicio + TREINTA_MINUTOS + 1, Inicio + 2 * TREINTA_MINUTOS }

Exito(w) ==
    workers[w].op = "reservar" /\ workers[w].pc = "fin" /\ workers[w].status = 201

\* C1: of two reserve requests served concurrently whose number sets
\* overlap, at most one is answered 201.  (Requests served one after the
\* other never both succeed, so two 201 responses for overlapping rows can
\* only come from requests that were in flight together.)
C1_AtMostOneSucceeds ==
    \A v, w \in Workers :
        (v # w /\ Exito(v) /\ Exito(w))
            => Numeros(workers[v].id) \cap Numeros(workers[w].id) = {}

\* C2: no number belongs to two different active reservations (confirmed, or
\* pending with ahora - timestamp below the hold window).
C2_OneActiveReservationPerNumber ==
    \A i, j \in 1..Len(participaciones) :
        (i # j /\ Activa(participaciones[i], ahora)
               /\ Activa(participaciones[j], ahora))
            => Numeros(i) \cap Numeros(j) = {}

\* C3: every number of every confirmed reservation is in the set that
\* GET /api/ocupados returns, now and at any later instant.
C3_ConfirmedAlwaysOccupied ==
    \A i \in 1..Len(participaciones) :
        participaciones[i].estado = "confirmado"
            => \A t \in Instantes \cup {ahora} :
                   Numeros(i) \subseteq ocupados(participaciones, t)

\* C3 witness: a confirmed row as old as the hold window, and a GET
\* /api/ocupados answered with its numbers.
C3_Witness ==
    \E i \in 1..Len(participaciones) : \E w \in Workers :
        /\ participaciones[i].estado = "confirmado"
        /\ ahora - participaciones[i].timestamp >= TREINTA_MINUTOS
        /\ workers[w].op = "ocupados" /\ workers[w].status = 200
        /\ Numeros(i) \subseteq workers[w].nums

\* C4: a pending reservation's numbers are occupied while its age is below the
\* hold window; from then on the row contributes nothing; and with only
\* pending rows the occupied set at a later instant is a subset of the
\* occupied set at an earlier one.
C4_PendingDecays ==
    /\ \A i \in 1..Len(participaciones) : \A t \in Instantes \cup {ahora} :
          participaciones[i].estado = "pendiente" =>
             IF t - participaciones[i].timestamp < TREINTA_MINUTOS
             THEN Numeros(i) \subseteq ocupados(participaciones, t)
             ELSE ocupados(<<participaciones[i]>>, t) = {}
    /\ (\A i \in 1..Len(participaciones) : participaciones[i].estado = "pendiente")
          => \A t1, t2 \in Instantes \cup {ahora} :
                 t1 <= t2 => ocupados(participaciones, t2)
                                \subseteq ocupados(participaciones, t1)

\* C4 witness: only pending rows, all of them as old as the hold window, and
\* a GET /api/ocupados answered with the empty set.
C4_Witness ==
    /\ Len(participaciones) > 0
    /\ \A i \in 1..Len(participaciones) :
          /\ participaciones[i].estado = "pendiente"
          /\ ahora - participaciones[i].timestamp >= TREINTA_MINUTOS
    /\ \E w \in Workers :
          workers[w].op = "ocupados" /\ workers[w].status = 200 /\ workers[w].nums = {}

\* C5: a number held only by rejected reservations is never in the set that
\* GET /api/ocupados returns, at any instant.
C5_RejectedNeverOccupied ==
    \A n \in FlatNumeros(participaciones) :
        (\A i \in 1..Len(participaciones) :
            n \in Numeros(i) => participaciones[i].estado = "rechazado")
        => \A t \in Instantes \cup {ahora} : n \notin ocupados(participaciones, t)

\* C5 witness: a rejected row still younger than the hold window, next to an
\* occupied row, and a GET /api/ocupados answered without the rejected
\* row's numbers.
C5_Witness ==
    \E i, j \in 1..Len(participaciones) : \E w \in Workers :
        /\ participaciones[i].estado = "rechazado"
        /\ ahora - participaciones[i].timestamp < TREINTA_MINUTOS
        /\ participaciones[j].estado # "rechazado"
        /\ workers[w].op = "ocupados" /\ workers[w].status = 200
        /\ workers[w].nums = Numeros(j)
        /\ Numeros(i) \cap workers[w].nums = {}

\* slot w's store call of this step returned (the step is not its 500 path)
SinError500(w) == ~(workers'[w].pc = "fin" /\ workers'[w].status = 500)

\* slot w runs its number check in this step
PasoNumeros(w) ==
    /\ workers[w].op = "reservar" /\ workers[w].pc = "numeros"
    /\ workers'[w].pc # "numeros" /\ SinError500(w)

\* slot w runs its reference check in this step
PasoReferencia(w) ==
    /\ workers[w].op = "reservar" /\ workers[w].pc = "referencia"
    /\ workers'[w].pc # "referencia" /\ SinError500(w)

\* C6: a reserve request whose numbers overlap an active reservation is
\* answered 409, inserts nothing, and the 409 lists exactly the requested
\* numbers that overlap an active reservation.
C6_ConflictListsActiveOverlap ==
    [][\A w \in Workers :
         LET solapa == Rango(workers[w].req.numeros)
                          \cap NumerosActivos(participaciones, ahora) IN
         (PasoNumeros(w) /\ solapa # {}) =>
            /\ workers'[w].pc = "fin" /\ workers'[w].status = 409
            /\ workers'[w].nums = solapa
            /\ participaciones' = participaciones]_vars

\* C7: a well-formed reserve request whose reference is that of a stored
\* row of any estado is answered 409 and inserts no row: its reference check,
\* once the table was read, answers 409; no request reaches the insert
\* except through a reference check that found nothing; and rows are added
\* only by the insert.
C7_ReferenceConflict ==
    [][/\ \A w \in Workers :
            /\ (PasoReferencia(w)
                 /\ \E i \in 1..Len(participaciones) :
                       participaciones[i].referencia = workers[w].req.referencia)
                => /\ workers'[w].pc = "fin" /\ workers'[w].status = 409
                   /\ workers'[w].error = "referencia"
                   /\ participaciones' = participaciones
            /\ (workers'[w].pc = "insertar" /\ workers[w].pc # "insertar")
                => /\ PasoReferencia(w)
                   /\ \A i \in 1..Len(participaciones) :
                         participaciones[i].referencia # workers[w].req.referencia
            /\ PasoNumeros(w) => workers'[w].pc \in {"referencia", "fin"}
       /\ Len(participaciones') # Len(participaciones)
            => \E w \in Workers : /\ workers[w].op = "reservar"
                                  /\ workers[w].pc = "insertar"
                                  /\ workers'[w].pc = "correo"]_vars

\* C7 witness: a request answered 409 for its reference while every stored
\* row is rejected.
C7_Witness ==
    /\ Len(participaciones) > 0
    /\ \A i \in 1..Len(participaciones) : participaciones[i].estado = "rechazado"
    /\ \E w \in Workers :
          /\ workers[w].op = "reservar" /\ workers[w].status = 409
          /\ workers[w].error = "referencia"

\* slot w takes an admin request op in this step (its fetch and guards run)
IniciaAdmin(w, op) ==
    /\ SlotLibre(w) /\ workers'[w] # workers[w]
    /\ workers'[w].op = op
    /\ workers'[w].pc \in {"fin", "actualizar"}
    /\ workers'[w].status \in {0, 400, 404}

\* C8: validar and rechazar on an id whose stored estado is confirmado are
\* answered 400 (once the row was fetched), leave the table as it is and
\* send no notification.
C8_ConfirmedIsGuarded ==
    [][\A w \in Workers : \A op \in {"validar", "rechazar"} :
         (/\ IniciaAdmin(w, op)
          /\ Existe(workers'[w].id)
          /\ participaciones[workers'[w].id].estado = "confirmado")
         => /\ workers'[w].pc = "fin"
            /\ workers'[w].status \in {400, 404}
            /\ (workers'[w].status = 404 \/ workers'[w].error = "ya validada")
            /\ workers'[w].correo = "no"
            /\ participaciones' = participaciones]_vars

\* C8 witness: a validar and a rechazar both answered 400 on confirmed rows.
C8_Witness ==
    \E v, w \in Workers :
        /\ workers[v].op = "validar" /\ workers[v].status = 400
        /\ workers[w].op = "rechazar" /\ workers[w].status = 400
        /\ participaciones[workers[v].id].estado = "confirmado"
        /\ participaciones[workers[w].id].estado = "confirmado"

\* C9: rechazar on an id whose estado is already rechazado passes the guard,
\* its update leaves the row rechazado and the whole table as one rechazar
\* left it, and it answers 200 once the notification is sent.
C9_RejectIsIdempotent ==
    [][\A w \in Workers :
         /\ (/\ IniciaAdmin(w, "rechazar")
              /\ Existe(workers'[w].id)
              /\ participaciones[workers'[w].id].estado = "rechazado"
              /\ workers'[w].status # 404)
             => workers'[w].pc = "actualizar"
         /\ (/\ workers[w].op = "rechazar" /\ workers[w].pc = "actualizar"
              /\ workers'[w].pc = "correo")
             => /\ participaciones'[workers[w].id].estado = "rechazado"
                /\ participaciones[workers[w].id].estado = "rechazado"
                      => participaciones' = participaciones
         /\ (/\ workers[w].op = "rechazar" /\ workers[w].pc = "correo"
              /\ workers'[w].correo = "enviado")
             => workers'[w].status = 200]_vars

\* C9 witness: one row, rejected; one rechazar answered 200 and another
\* rechazar past its update of the same row.
C9_Witness ==
    /\ Len(participaciones) = 1
    /\ participaciones[1].estado = "rechazado"
    /\ \E v, w \in Workers :
          /\ workers[v].op = "rechazar" /\ workers[v].status = 200
          /\ workers[w].op = "rechazar" /\ workers[w].pc = "correo"

\* C10: once a row's estado is confirmado it is confirmado in every later
\* state.
C10_ConfirmedIsTerminal ==
    [][\A i \in 1..Len(participaciones) :
         participaciones[i].estado = "confirmado"
            => participaciones'[i].estado = "confirmado"]_vars

\* C11: rechazado is terminal, and estado only ever changes from pendiente
\* (to confirmado or to rechazado): a row that is rechazado is rechazado in
\* every later state, and a step that changes a row's estado starts from
\* pendiente.
C11_RejectedIsTerminal ==
    [][\A i \in 1..Len(participaciones) :
         /\ participaciones[i].estado = "rechazado"
               => participaciones'[i].estado = "rechazado"
         /\ participaciones'[i].estado # participaciones[i].estado
               => /\ participaciones[i].estado = "pendiente"
                  /\ participaciones'[i].estado \in {"confirmado", "rechazado"}]_vars

\* every stored row that holds one of the numbers ns is rechazado
SoloRechazadas(ns) ==
    \A i \in 1..Len(participaciones) :
        Numeros(i) \cap Rango(ns) # {} => participaciones[i].estado = "rechazado"

\* C12: a well-formed reserve request whose numbers are held only by rejected
\* reservations is not refused as a number conflict: its number check, once
\* the table was read, lets it through to the reference check.
C12_RejectedNumbersAreReusable ==
    [][\A w \in Workers :
         (PasoNumeros(w) /\ SoloRechazadas(workers[w].req.numeros))
            => /\ workers'[w].pc = "referencia"
               /\ workers'[w].status # 409]_vars

\* a body with every field present and non-empty and an array of two or more
\* numbers
BienFormado(b) ==
    /\ b.nombre # "" /\ b.telefono # "" /\ b.correo # ""
    /\ b.referencia # "" /\ b.fecha # "" /\ b.timestamp # 0
    /\ b.esArray /\ Len(b.numeros) >= 2

\* the steps of POST /api/reservar that read or write the store, and the one
\* after the write
PasosConStore == {"numeros", "referencia", "insertar", "correo"}

\* C13: a reserve request with fewer than two numbers, a non-array numeros
\* or an empty field is answered 400 in the step that receives it, with the
\* table untouched; only well-formed requests ever stand at a step that reads
\* or writes the store; and every stored row has at least two numbers.
C13_InvalidRefusedBeforeStore ==
    [][/\ \A w \in Workers : \A b \in CuerposInvalidos :
            ReservarRecibir(w, b)
               => /\ workers'[w].pc = "fin" /\ workers'[w].status = 400
                  /\ workers'[w].id = 0 /\ workers'[w].correo = "no"
                  /\ participaciones' = participaciones
       /\ \A w \in Workers :
            (workers'[w].op = "reservar" /\ workers'[w].pc \in PasosConStore)
               => BienFormado(workers'[w].req)
       /\ \A i \in 1..Len(participaciones') :
            Len(participaciones'[i].numeros) >= 2]_vars

\* C13 witness: a request answered 400 for missing data next to a request
\* that was let through to the store and inserted its row.
C13_Witness ==
    \E v, w \in Workers :
        /\ workers[v].op = "reservar" /\ workers[v].status = 400
        /\ workers[v].error = "faltan" /\ workers[v].id = 0
        /\ workers[w].op = "reservar" /\ workers[w].pc = "correo"
        /\ participaciones[workers[w].id].numeros = workers[w].req.numeros

\* C14: no two stored rows, whatever their estado, carry the same
\* referencia.
C14_ReferenceIsUnique ==
    \A i, j \in 1..Len(participaciones) :
        i # j => participaciones[i].referencia # participaciones[j].referencia

\* slot w's notification fails in this step
FallaCorreo(w, op) ==
    /\ workers[w].op = op /\ workers[w].pc = "correo"
    /\ workers'[w].correo = "fallo"

\* C15: when the notification fails after the store was changed, the request
\* is answered 500 and the change stays: the failing step leaves the table
\* as it is, with the row reserve inserted still there as it was inserted
\* (pendiente), or with the estado validar / rechazar wrote still written.
C15_MailFailureKeepsMutation ==
    [][\A w \in Workers :
         /\ FallaCorreo(w, "reservar")
              => /\ workers'[w].pc = "fin" /\ workers'[w].status = 500
                 /\ participaciones' = participaciones
                 /\ Existe(workers[w].id)
                 /\ participaciones'[workers[w].id]
                       = NuevaFila(workers[w].req, workers[w].id)
         /\ FallaCorreo(w, "validar")
              => /\ workers'[w].pc = "fin" /\ workers'[w].status = 500
                 /\ participaciones' = participaciones
                 /\ participaciones'[workers[w].id].estado = "confirmado"
         /\ FallaCorreo(w, "rechazar")
              => /\ workers'[w].pc = "fin" /\ workers'[w].status = 500
                 /\ participaciones' = participaciones
                 /\ participaciones'[workers[w].id].estado = "rechazado"]_vars

\* C15 witness: a reserve answered 500 because its mail failed, and the row
\* it inserted in the table, pendiente.
C15_Witness ==
    \E w \in Workers :
        /\ workers[w].op = "reservar" /\ workers[w].status = 500
        /\ workers[w].correo = "fallo"
        /\ Existe(workers[w].id)
        /\ participaciones[workers[w].id].estado = "pendiente"

\* slot w answers 400, 404 or 409 in this step
Rechaza(w) ==
    /\ workers'[w] # workers[w]
    /\ workers'[w].pc = "fin"
    /\ workers'[w].status \in {400, 404, 409}

\* where a request stands before it has written anything: not yet received,
\* or at one of the two checks of POST /api/reservar
PasosSinEscritura == {"libre", "fin", "numeros", "referencia"}

\* C16: a request answered 400, 404 or 409 has written nothing and mailed
\* nothing: the answer is given from a step before any write, the answering
\* step and every earlier step of the request leave the table as it is, and
\* no notification was sent.
C16_RefusalsLeaveStore ==
    [][\A w \in Workers :
         /\ Rechaza(w)
              => /\ workers[w].pc \in PasosSinEscritura
                 /\ workers'[w].correo = "no"
                 /\ participaciones' = participaciones
         /\ (workers'[w] # workers[w] /\ workers[w].pc \in PasosSinEscritura)
              => participaciones' = participaciones]_vars

\* C16 witness: a rechazar answered 400 on a row that is confirmado, with no
\* notification sent.
C16_Witness ==
    \E w \in Workers :
        /\ workers[w].op = "rechazar" /\ workers[w].status = 400
        /\ workers[w].correo = "no"
        /\ Existe(workers[w].id)
        /\ participaciones[workers[w].id].estado = "confirmado"

\* slot w, which holds the last response, is answered a GET /api/ocupados
\* in this step: the read is the very next operation after that response
LeeOcupados(w) ==
    /\ workers'[w] # workers[w]
    /\ workers'[w].op = "ocupados" /\ workers'[w].status = 200

\* C17: a GET /api/ocupados that directly follows a reserve answered 201,
\* with the clock unmoved and nothing in between, returns every number of
\* the row that reserve inserted, whatever accepted timestamp it carried.
C17_FreshReservationIsOccupied ==
    [][\A w \in Workers :
         (Exito(w) /\ LeeOcupados(w))
            => Numeros(workers[w].id) \subseteq workers'[w].nums]_vars

\* C18: a reserve request is refused for a number conflict exactly when one
\* of its numbers is in the set GET /api/ocupados would return at that
\* moment.
C18_AdmissionAgreesWithOcupados ==
    [][\A w \in Workers :
         PasoNumeros(w)
            => ((workers'[w].pc = "fin" /\ workers'[w].status = 409)
                  <=> Rango(workers[w].req.numeros)
                         \cap ocupados(participaciones, ahora) # {})]_vars

\* the numbers of the rows that are confirmado, or pendiente with a
\* timestamp strictly greater than t minus the hold window
NumerosRetenidos(filas, t) ==
    { n \in FlatNumeros(filas) :
        \E i \in 1..Len(filas) :
            /\ n \in Rango(filas[i].numeros)
            /\ \/ filas[i].estado = "confirmado"
               \/ /\ filas[i].estado = "pendiente"
                  /\ filas[i].timestamp > t - TREINTA_MINUTOS }

SinDuplicados(xs) == \A i, j \in 1..Len(xs) : i # j => xs[i] # xs[j]

\* C19: a GET /api/ocupados that read the table answers with exactly the
\* numbers of the rows that are confirmado or pendiente with timestamp >
\* ahora - hold window, each number once; a pendiente row whose timestamp
\* equals ahora - hold window adds nothing.
C19_OcupadosIsExactlyTheUnion ==
    [][\A w \in Workers :
         LeeOcupados(w)
            => LET lista == ocupadosLista(participaciones, ahora) IN
               /\ workers'[w].nums = Rango(lista)
               /\ SinDuplicados(lista)
               /\ Rango(lista) = NumerosRetenidos(participaciones, ahora)
               /\ \A i \in 1..Len(participaciones) :
                     (/\ participaciones[i].estado = "pendiente"
                      /\ participaciones[i].timestamp = ahora - TREINTA_MINUTOS)
                     => ocupadosLista(<<participaciones[i]>>, ahora) = <<>>]_vars

\* C19 witness: a pendiente row stamped exactly ahora - hold window next to a
\* pendiente row one millisecond younger that repeats a number; the read
\* answers with the younger row's number only.
C19_Witness ==
    \E i, j \in 1..Len(participaciones) : \E w \in Workers :
        /\ participaciones[i].estado = "pendiente"
        /\ participaciones[i].timestamp = ahora - TREINTA_MINUTOS
        /\ participaciones[j].estado = "pendiente"
        /\ participaciones[j].timestamp = ahora - TREINTA_MINUTOS + 1
        /\ Len(participaciones[j].numeros) > Cardinality(Numeros(j))
        /\ workers[w].op = "ocupados" /\ workers[w].status = 200
        /\ workers[w].nums = Numeros(j)
        /\ Numeros(i) \cap workers[w].nums = {}

\* slot w's insert runs in this step
Inserta(w) ==
    /\ workers[w].op = "reservar" /\ workers[w].pc = "insertar"
    /\ workers'[w].pc = "correo"

\* slot w's update of row i runs in this step
Actualiza(w, i) ==
    /\ workers[w].op \in {"validar", "rechazar"}
    /\ workers[w].pc = "actualizar" /\ workers[w].id = i
    /\ workers'[w].pc = "correo"

\* C20: rows are never removed and keep their ids; a row is added only by
\* the insert of POST /api/reservar, one at a time, with estado pendiente;
\* and the estado of a stored row changes only in the update step of a
\* validar or rechazar on that row, never in a step of reserve or of a read.
C20_RecordsEnterPendingAndStay ==
    [][/\ Len(participaciones') >= Len(participaciones)
       /\ \A i \in 1..Len(participaciones) :
             /\ participaciones'[i].id = participaciones[i].id
             /\ participaciones'[i].estado # participaciones[i].estado
                   => \E w \in Workers : Actualiza(w, i)
       /\ Len(participaciones') > Len(participaciones)
             => /\ Len(participaciones') = Len(participaciones) + 1
                /\ participaciones'[Len(participaciones')].estado = "pendiente"
                /\ \E w \in Workers : Inserta(w)
                /\ \A i \in 1..Len(participaciones) :
                      participaciones'[i] = participaciones[i]]_vars

\* C20 witness: a reserve answered 201 whose row is the newest of the table
\* and pendiente, below an older row that validar or rechazar has settled.
C20_Witness ==
    \E w \in Workers : \E i \in 1..Len(participaciones) :
        /\ Exito(w)
        /\ workers[w].id = Len(participaciones)
        /\ i < workers[w].id
        /\ participaciones[workers[w].id].estado = "pendiente"
        /\ participaciones[i].estado # "pendiente"

\* slot w moves from step de to step a
Avanza(w, de, a) == workers[w].pc = de /\ workers'[w].pc = a

\* C21: the number check runs before the reference check and each check
\* ends the request when it fails: a request that conflicts on numbers and on
\* reference is answered the number conflict; the reference check is reached
\* only from a number check that found nothing, the insert only from a
\* reference check that found nothing; rows are added only by the insert and
\* the notification is sent only after the insert.
C21_ChecksRunInOrder ==
    [][\A w \in Workers :
         /\ (/\ PasoNumeros(w)
              /\ repetidos(workers[w].req.numeros, participaciones) # {}
              /\ referencias(participaciones, workers[w].req.referencia) # {})
             => /\ workers'[w].pc = "fin" /\ workers'[w].status = 409
                /\ workers'[w].error = "numeros"
         /\ (workers'[w].pc = "referencia" /\ workers[w].pc # "referencia")
             => /\ PasoNumeros(w)
                /\ repetidos(workers[w].req.numeros, participaciones) = {}
         /\ (workers'[w].pc = "insertar" /\ workers[w].pc # "insertar")
             => /\ PasoReferencia(w)
                /\ referencias(participaciones, workers[w].req.referencia) = {}
         /\ (workers'[w].op = "reservar" /\ workers'[w].pc = "correo"
                /\ workers[w].pc # "correo")
             => Avanza(w, "insertar", "correo")
         /\ (workers'[w].op = "reservar" /\ workers'[w].correo # "no"
                /\ workers'[w] # workers[w])
             => workers[w].op = "reservar" /\ workers[w].pc = "correo"
         /\ Len(participaciones') # Len(participaciones)
             => \E v \in Workers :
                   workers[v].op = "reservar" /\ Avanza(v, "insertar", "correo")]_vars

\* C21 witness: a request answered the number conflict while every reference
\* a request can carry is already stored, so that it conflicted on both.
C21_Witness ==
    /\ \A b \in CuerposValidos :
          referencias(participaciones, b.referencia) # {}
    /\ \E w \in Workers :
          /\ workers[w].op = "reservar" /\ workers[w].status = 409
          /\ workers[w].error = "numeros" /\ workers[w].nums # {}

\* the estado a request of kind op writes
EstadoQueEscribe(op) == IF op = "validar" THEN "confirmado" ELSE "rechazado"

\* C22: a validar or rechazar on id X writes the estado of row X and nothing
\* else: its update step leaves the id, contact fields, numbers, reference,
\* fecha and timestamp of row X and every other row as they were, and no
\* other step of the request changes the table.
C22_OnlyStatusChanges ==
    [][\A w \in Workers :
         (workers'[w] # workers[w] /\ workers'[w].op \in {"validar", "rechazar"})
            => IF Actualiza(w, workers[w].id)
               THEN participaciones' =
                       [participaciones EXCEPT ![workers[w].id] =
                           [participaciones[workers[w].id] EXCEPT
                               !.estado = EstadoQueEscribe(workers[w].op)]]
               ELSE participaciones' = participaciones]_vars

\* C22 witness: a validar past its update of a row that is now confirmado,
\* next to a row with other numbers and another reference that is still
\* pendiente.
C22_Witness ==
    \E w \in Workers : \E j \in 1..Len(participaciones) :
        /\ workers[w].op = "validar" /\ workers[w].pc = "correo"
        /\ participaciones[workers[w].id].estado = "confirmado"
        /\ participaciones[j].estado = "pendiente"
        /\ participaciones[j].numeros # participaciones[workers[w].id].numeros
        /\ participaciones[j].referencia
              # participaciones[workers[w].id].referencia

\* a POST /api/admin/login is answered in this step
PasoLogin ==
    \/ sesion' # sesion
    \/ \E w \in Workers : workers'[w] # workers[w] /\ workers'[w].op = "login"

\* slot w takes a request of kind op in this step
Recibe(w, op) ==
    /\ SlotLibre(w) /\ workers'[w] # workers[w]
    /\ workers'[w].op = op

\* s lists the rows of filas, each once, newest first
ListaDe(s, filas) ==
    /\ Len(s) = Len(filas)
    /\ \A i \in 1..Len(filas) : \E j \in 1..Len(s) : s[j] = filas[i]
    /\ \A i, j \in 1..Len(s) : i # j => s[i] # s[j]
    /\ \A i \in 1..(Len(s) - 1) : s[i].timestamp >= s[i + 1].timestamp

\* C23: what validar, rechazar and the listing answer and write is fixed by
\* the table and the request alone, whatever the login state (never called,
\* refused, succeeded): a login step changes neither the table nor a request
\* in flight; no other step changes the login state; a validar or rechazar
\* is answered 404, 400 or let through to its update by the row it names,
\* its update writes that row's estado or fails with 500, its mail step
\* answers 200 or 500; and the listing answers the rows of the table.
C23_LoginStateIsNeverRead ==
    [][/\ PasoLogin
          => /\ participaciones' = participaciones
             /\ \A w \in Workers :
                   workers'[w] # workers[w] => workers'[w].op = "login"
       /\ ~PasoLogin => sesion' = sesion
       /\ \A w \in Workers : \A op \in {"validar", "rechazar"} :
            /\ Recibe(w, op)
                 => LET id == workers'[w].id IN
                    /\ participaciones' = participaciones
                    /\ IF ~Existe(id)
                       THEN workers'[w].pc = "fin" /\ workers'[w].status = 404
                       ELSE \/ workers'[w].pc = "fin" /\ workers'[w].status = 404
                            \/ /\ participaciones[id].estado = "confirmado"
                               /\ workers'[w].pc = "fin"
                               /\ workers'[w].status = 400
                            \/ /\ participaciones[id].estado # "confirmado"
                               /\ workers'[w].pc = "actualizar"
            /\ (workers[w].op = op /\ workers[w].pc = "actualizar"
                   /\ workers'[w] # workers[w])
                 => \/ /\ workers'[w].pc = "correo"
                       /\ participaciones' =
                             [participaciones EXCEPT ![workers[w].id].estado =
                                 EstadoQueEscribe(op)]
                    \/ /\ workers'[w].pc = "fin" /\ workers'[w].status = 500
                       /\ participaciones' = participaciones
            /\ (workers[w].op = op /\ workers[w].pc = "correo"
                   /\ workers'[w] # workers[w])
                 => /\ workers'[w].pc = "fin"
                    /\ workers'[w].status \in {200, 500}
                    /\ participaciones' = participaciones
       /\ \A w \in Workers :
            Recibe(w, "participaciones")
               => /\ participaciones' = participaciones
                  /\ workers'[w].pc = "fin"
                  /\ \/ workers'[w].status = 500
                     \/ /\ workers'[w].status = 200
                        /\ ListaDe(workers'[w].data, participaciones)]_vars

\* C23 witness: no login was ever attempted, a validar has been answered 200
\* and the row it confirmed is in the table.
C23_Witness ==
    /\ sesion.login = "ninguno"
    /\ \E w \in Workers :
          /\ workers[w].op = "validar" /\ workers[w].status = 200
          /\ workers[w].correo = "enviado"
    /\ \E i \in 1..Len(participaciones) :
          participaciones[i].estado = "confirmado"
====
